---- MODULE Spec2Model ----
(***************************************************************************)
(* Model of the fraud-detection chart scripts research_visualizations.py   *)
(* and visualization_code.py.  A DataFrame is a sequence of rows, each row *)
(* a record holding its index label and its columns.  Only the data the    *)
(* charts compute is modelled; drawing calls (histplot, barplot, scatter,  *)
(* heatmap, show) and the style setup are taken to succeed on whatever data *)
(* they are handed.                                                        *)
(***************************************************************************)
EXTENDS Integers, Sequences, FiniteSets, TLC

\* ---------------------------------------------------------------- bounds
\* rows per table when the two tables may differ in length and labels
MaxRows == 2
\* rows per table in the row-aligned runs
MaxAlignedRows == 3
\* rows per table in the top-K runs (one more than TopK)
MaxTopRows == 11

\* ------------------------------------------------------ program constants
\* nlargest(10, 'transaction amount')
TopK == 10
\* sns.histplot(data=anomaly_dates, bins=30)
Bins == 30
\* value_counts().head(10)
TopCategories == 10
\* region_anomalies.head(): pandas' default n of head()
HeadDefault == 5

\* -------------------------------------------------------- small helpers
Min(a, b) == IF a <= b THEN a ELSE b

SetMin(S) == CHOOSE x \in S : \A y \in S : x <= y

SetMax(S) == CHOOSE x \in S : \A y \in S : y <= x

RECURSIVE SeqSum(_)
SeqSum(s) == IF s = <<>> THEN 0 ELSE s[1] + SeqSum(Tail(s))

\* np.nan in a text column
NaN == "NaN"

\* ------------------------------------------------- pandas: frame access
\* df.index: the row labels, in row order
index(df) == [i \in 1..Len(df) |-> df[i].index]

\* df.reset_index(drop=True): labels become 0..len-1
reset_index(df) == [i \in 1..Len(df) |-> [df[i] EXCEPT !.index = i - 1]]

\* anomaly_df[anomaly_df['is_anomaly'] == v]: boolean-mask filter, labels kept
mask_is_anomaly(anomaly, v) == SelectSeq(anomaly, LAMBDA r : r.is_anomaly = v)

\* A faulty iloc: positions outside the frame are skipped instead of raising.
iloc_skip_out_of_bounds(df, positions) ==
    LET inside == SelectSeq(positions, LAMBDA p : p >= -Len(df) /\ p < Len(df))
    IN  [error |-> "",
         rows  |-> [i \in 1..Len(inside) |->
                      df[IF inside[i] >= 0 THEN inside[i] + 1
                         ELSE Len(df) + inside[i] + 1]]]

\* df.iloc[positions]: purely positional (0-based, negatives count from the
\* end); any position outside the frame raises IndexError
iloc(df, positions) ==
    IF \E i \in 1..Len(positions) :
           positions[i] >= Len(df) \/ positions[i] < -Len(df)
    THEN [error |-> "IndexError", rows |-> <<>>]
    ELSE [error |-> "",
          rows  |-> [i \in 1..Len(positions) |->
                       df[IF positions[i] >= 0 THEN positions[i] + 1
                          ELSE Len(df) + positions[i] + 1]]]

\* merged_df.iloc[anomaly_df[anomaly_df['is_anomaly'] == v].index]:
\* the LABELS of the flagged anomaly rows are used as POSITIONS in merged
iloc_anomaly_index(merged, anomaly, v) ==
    iloc(merged, index(mask_is_anomaly(anomaly, v)))

\* ------------------------------------------------------ pandas: sorting
\* positions of keys in descending key order, equal keys in original order
\* (a stable sort of the negated keys)
RECURSIVE argsort_desc(_, _)
argsort_desc(keys, remaining) ==
    IF remaining = {} THEN <<>>
    ELSE LET best == CHOOSE i \in remaining :
                         \A j \in remaining :
                             keys[j] < keys[i] \/ (keys[j] = keys[i] /\ i <= j)
         IN  <<best>> \o argsort_desc(keys, remaining \ {best})

\* A faulty nlargest: among equal amounts the LAST occurrence comes first
\* (keep='last').
RECURSIVE argsort_desc_last(_, _)
argsort_desc_last(keys, remaining) ==
    IF remaining = {} THEN <<>>
    ELSE LET best == CHOOSE i \in remaining :
                         \A j \in remaining :
                             keys[j] < keys[i] \/ (keys[j] = keys[i] /\ j <= i)
         IN  <<best>> \o argsort_desc_last(keys, remaining \ {best})

nlargest_keep_last(df, n) ==
    LET order == argsort_desc_last([i \in 1..Len(df) |-> df[i].amount], 1..Len(df))
    IN  [i \in 1..Min(n, Len(df)) |-> df[order[i]]]

\* df.nlargest(n, 'transaction amount'), keep='first'
nlargest(df, n) ==
    LET order == argsort_desc([i \in 1..Len(df) |-> df[i].amount], 1..Len(df))
    IN  [i \in 1..Min(n, Len(df)) |-> df[order[i]]]

\* series.head(n)
head(s, n) == SubSeq(s, 1, Min(n, Len(s)))

\* ------------------------------------------------ pandas: value_counts
\* the distinct values of a series in order of first occurrence
RECURSIVE unique(_)
unique(s) ==
    IF s = <<>> THEN <<>>
    ELSE LET init == unique(SubSeq(s, 1, Len(s) - 1))
             last == s[Len(s)]
         IN  IF \E i \in 1..Len(init) : init[i] = last THEN init
             ELSE Append(init, last)

\* series.value_counts(): dropna=True, so missing values are not counted;
\* (value, count) pairs by descending count
value_counts(series) ==
    LET present == SelectSeq(series, LAMBDA v : v # NaN)
        u       == unique(present)
        cnt     == [i \in 1..Len(u) |->
                      Cardinality({j \in 1..Len(present) : present[j] = u[i]})]
        order   == argsort_desc(cnt, 1..Len(u))
    IN  [i \in 1..Len(u) |-> [value |-> u[order[i]], count |-> cnt[order[i]]]]

\* ------------------------------------------------------- pandas: mean
\* series.mean() printed with :.2f, in hundredths (rounded to nearest; the
\* amounts used give no exact halves); an empty series has mean NaN (printed
\* "nan") and raises nothing
mean(values) ==
    IF values = <<>> THEN [nan |-> TRUE, cents |-> 0]
    ELSE [nan   |-> FALSE,
          cents |-> (200 * SeqSum(values) + Len(values)) \div (2 * Len(values))]

\* -------------------------------------------------- pandas: to_datetime
\* A date cell is text that parses to a day, text that does not parse,
\* a missing value, or (after parsing) a datetime or NaT.
to_datetime_cell(d) ==
    CASE d.kind = "text"     -> [kind |-> "datetime", day |-> d.day]
      [] d.kind = "missing"  -> [kind |-> "NaT", day |-> 0]
      [] OTHER               -> d

\* pd.to_datetime(series): one unparseable cell raises (DateParseError, a
\* ValueError) and nothing is returned
to_datetime(series) ==
    IF \E i \in 1..Len(series) : series[i].kind = "garbage"
    THEN [error |-> "ValueError", values |-> <<>>]
    ELSE [error |-> "",
          values |-> [i \in 1..Len(series) |-> to_datetime_cell(series[i])]]

\* ------------------------------------------------- seaborn: histplot
\* A faulty histplot: the last bucket is half-open, so a value equal to the
\* maximum falls outside every bucket.
histplot_open_last(data, bins) ==
    LET x == SelectSeq(data, LAMBDA d : d.kind = "datetime")
    IN  IF x = <<>> THEN [lo2 |-> 0, hi2 |-> 0, counts |-> <<>>]
        ELSE LET days == {x[i].day : i \in 1..Len(x)}
                 mn   == SetMin(days)
                 mx   == SetMax(days)
                 lo2  == IF mn = mx THEN 2 * mn - 1 ELSE 2 * mn
                 hi2  == IF mn = mx THEN 2 * mx + 1 ELSE 2 * mx
                 bin(d) == ((2 * d - lo2) * bins) \div (hi2 - lo2) + 1
             IN  [lo2 |-> lo2, hi2 |-> hi2,
                  counts |-> [b \in 1..bins |->
                      Cardinality({i \in 1..Len(x) : bin(x[i].day) = b})]]

\* sns.histplot(data=dates, bins=bins): missing dates are dropped; the range
\* is [min, max] of the data handed in (widened by 0.5 on each side when
\* min = max), cut into `bins` equal-width buckets, the last one closed.
\* lo2 and hi2 are twice the range's ends, to stay in the integers.
histplot(data, bins) ==
    LET x == SelectSeq(data, LAMBDA d : d.kind = "datetime")
    IN  IF x = <<>> THEN [lo2 |-> 0, hi2 |-> 0, counts |-> <<>>]
        ELSE LET days == {x[i].day : i \in 1..Len(x)}
                 mn   == SetMin(days)
                 mx   == SetMax(days)
                 lo2  == IF mn = mx THEN 2 * mn - 1 ELSE 2 * mn
                 hi2  == IF mn = mx THEN 2 * mx + 1 ELSE 2 * mx
                 bin(d) == IF 2 * d = hi2 THEN bins
                           ELSE ((2 * d - lo2) * bins) \div (hi2 - lo2) + 1
             IN  [lo2 |-> lo2, hi2 |-> hi2,
                  counts |-> [b \in 1..bins |->
                      Cardinality({i \in 1..Len(x) : bin(x[i].day) = b})]]

\* ------------------------------------------------------------- state
VARIABLES
    module,               \* which file's example-usage script is running
    pc,                   \* position of the next call in that script
    raised,               \* the uncaught exception that ended the script, or ""
    merged_df,            \* the caller's transactions table
    anomaly_df,           \* the caller's anomaly-results table
    outcome,              \* per chart/report: "pending", "ok" or the exception
    files,                \* per output file name: the chart saved there, or ""
    top_anomalies,        \* overview: the selected anomalous rows
    top_anomalies_sorted, \* overview: nlargest of them
    region_anomalies,     \* overview: value counts of their region
    anomaly_dates,        \* temporal: the selected rows' dates
    hist,                 \* temporal: the histogram drawn
    mcc_anomalies,        \* merchant categories: head of the value counts
    plot_data,            \* boxplot: the labelled copy
    summary               \* the report printed so far

vars == <<module, pc, raised, merged_df, anomaly_df, outcome, files,
          top_anomalies, top_anomalies_sorted, region_anomalies,
          anomaly_dates, hist, mcc_anomalies, plot_data, summary>>

Charts == {"overview", "temporal", "mcc", "correlation", "boxplot", "summary"}

ImageCharts == Charts \ {"summary"}

\* A faulty savefig_name: the merchant-category chart is saved under the
\* temporal chart's name.
savefig_name_shared(chart) ==
    CASE chart = "overview"    -> "fraud_detection_analysis.png"
      [] chart = "temporal"    -> "anomaly_temporal_distribution.png"
      [] chart = "mcc"         -> "anomaly_temporal_distribution.png"
      [] chart = "correlation" -> "feature_correlation_heatmap.png"
      [] chart = "boxplot"     -> "transaction_amount_boxplot.png"

\* the name each chart hands to plt.savefig
savefig_name(chart) ==
    CASE chart = "overview"    -> "fraud_detection_analysis.png"
      [] chart = "temporal"    -> "anomaly_temporal_distribution.png"
      [] chart = "mcc"         -> "mcc_anomaly_distribution.png"
      [] chart = "correlation" -> "feature_correlation_heatmap.png"
      [] chart = "boxplot"     -> "transaction_amount_boxplot.png"

\* plt.savefig(name): writes the file, replacing one of the same name
savefig(fs, chart) == [fs EXCEPT ![savefig_name(chart)] = chart]

\* The locals and the caller's table threaded through a function body.
State ==
    [raised |-> raised, merged_df |-> merged_df, outcome |-> outcome,
     files |-> files, top_anomalies |-> top_anomalies,
     top_anomalies_sorted |-> top_anomalies_sorted,
     region_anomalies |-> region_anomalies, anomaly_dates |-> anomaly_dates,
     hist |-> hist, mcc_anomalies |-> mcc_anomalies, plot_data |-> plot_data,
     summary |-> summary]

\* an exception leaves the function: nothing after the raising line runs
raise(s, chart, err) == [s EXCEPT !.outcome[chart] = err, !.raised = err]

\* ----------------------------------------------------- function bodies
\* The six-panel overview: panels 5 and 6 select the anomalous rows, take the
\* ten largest amounts and count regions; then the figure is saved.
overview_section(s, anomaly) ==
    LET sel == iloc_anomaly_index(s.merged_df, anomaly, 1)
    IN  IF s.raised # "" THEN s
        ELSE IF sel.error # "" THEN raise(s, "overview", sel.error)
        ELSE [s EXCEPT
                !.top_anomalies = sel.rows,
                !.top_anomalies_sorted = nlargest(sel.rows, TopK),
                !.region_anomalies =
                    value_counts([i \in 1..Len(sel.rows) |-> sel.rows[i].region]),
                !.files = savefig(s.files, "overview"),
                !.outcome["overview"] = "ok"]

\* The temporal chart: the caller's date column is REPLACED by its parsed
\* form, then the anomalous rows' dates are selected and drawn.
temporal_section(s, anomaly) ==
    LET parsed  == to_datetime([i \in 1..Len(s.merged_df) |->
                                   s.merged_df[i].transaction_date])
        merged2 == [i \in 1..Len(s.merged_df) |->
                       [s.merged_df[i] EXCEPT
                           !.transaction_date = parsed.values[i]]]
        sel     == iloc_anomaly_index(merged2, anomaly, 1)
        dates   == [i \in 1..Len(sel.rows) |-> sel.rows[i].transaction_date]
    IN  IF s.raised # "" THEN s
        ELSE IF parsed.error # "" THEN raise(s, "temporal", parsed.error)
        ELSE IF sel.error # ""
             THEN raise([s EXCEPT !.merged_df = merged2], "temporal", sel.error)
        ELSE [s EXCEPT
                !.merged_df = merged2,
                !.anomaly_dates = dates,
                !.hist = histplot(dates, Bins),
                !.files = savefig(s.files, "temporal"),
                !.outcome["temporal"] = "ok"]

\* The merchant-category chart: value counts of the anomalous rows' category,
\* first ten.
mcc_section(s, anomaly) ==
    LET sel == iloc_anomaly_index(s.merged_df, anomaly, 1)
    IN  IF s.raised # "" THEN s
        ELSE IF sel.error # "" THEN raise(s, "mcc", sel.error)
        ELSE [s EXCEPT
                !.mcc_anomalies =
                    head(value_counts([i \in 1..Len(sel.rows) |->
                                          sel.rows[i].mcc_description]),
                         TopCategories),
                !.files = savefig(s.files, "mcc"),
                !.outcome["mcc"] = "ok"]

\* The correlation heatmap reads merged_df only; its matrix is drawn, not kept.
correlation_section(s) ==
    IF s.raised # "" THEN s
    ELSE [s EXCEPT !.files = savefig(s.files, "correlation"),
                   !.outcome["correlation"] = "ok"]

\* plot_data['is_anomaly'] = anomaly['is_anomaly']: aligned on index LABELS;
\* a row of plot whose label anomaly lacks gets NaN
assign_is_anomaly(plot, anomaly) ==
    [i \in 1..Len(plot) |->
        [index  |-> plot[i].index,
         amount |-> plot[i].amount,
         is_anomaly |->
            IF \E j \in 1..Len(anomaly) : anomaly[j].index = plot[i].index
            THEN LET j == CHOOSE k \in 1..Len(anomaly) :
                              anomaly[k].index = plot[i].index
                 IN  IF anomaly[j].is_anomaly = 1 THEN "1" ELSE "0"
            ELSE NaN]]

\* The boxplot works on a copy, so the caller's table keeps its columns.
boxplot_section(s, plot, anomaly) ==
    IF s.raised # "" THEN s
    ELSE [s EXCEPT !.plot_data = assign_is_anomaly(plot, anomaly),
                   !.files = savefig(s.files, "boxplot"),
                   !.outcome["boxplot"] = "ok"]

\* count / len * 100 printed with :.2f, in hundredths of a percent
percentage(count, len) == (20000 * count + len) \div (2 * len)

\* The printed report, line by line; a line whose f-string raises is not
\* printed and ends the function.
report(s, merged, anomaly, regions) ==
    LET flagged == Len(mask_is_anomaly(anomaly, 1))
        sel1    == iloc_anomaly_index(merged, anomaly, 1)
        sel0    == iloc_anomaly_index(merged, anomaly, 0)
        amounts(rows) == [i \in 1..Len(rows) |-> rows[i].amount]
        s1 == [s EXCEPT !.summary.lines = 1, !.summary.total = flagged]
        s2 == [s1 EXCEPT !.summary.lines = 2,
                         !.summary.percent = percentage(flagged, Len(anomaly))]
        s3 == [s2 EXCEPT !.summary.lines = 3,
                         !.summary.top_regions = head(regions, HeadDefault)]
        s4 == [s3 EXCEPT !.summary.lines = 4,
                         !.summary.mean_anomalies = mean(amounts(sel1.rows))]
        s5 == [s4 EXCEPT !.summary.lines = 5,
                         !.summary.mean_normal = mean(amounts(sel0.rows)),
                         !.outcome["summary"] = "ok"]
    IN  IF Len(anomaly) = 0 THEN raise(s1, "summary", "ZeroDivisionError")
        ELSE IF sel1.error # "" THEN raise(s3, "summary", sel1.error)
        ELSE IF sel0.error # "" THEN raise(s4, "summary", sel0.error)
        ELSE s5

\* research_visualizations.print_summary_statistics: both tables are re-indexed
\* first, then the regions of the anomalous rows are counted.
summary_section(s, anomaly) ==
    LET merged_data  == reset_index(s.merged_df)
        anomaly_data == reset_index(anomaly)
        sel          == iloc_anomaly_index(merged_data, anomaly_data, 1)
    IN  IF s.raised # "" THEN s
        ELSE IF sel.error # "" THEN raise(s, "summary", sel.error)
        ELSE report(s, merged_data, anomaly_data,
                    value_counts([i \in 1..Len(sel.rows) |-> sel.rows[i].region]))

\* visualization_code: the report at the end of create_research_visualizations
\* uses the tables as passed and the overview's region counts.
vc_summary_section(s, anomaly) ==
    IF s.raised # "" THEN s
    ELSE report(s, s.merged_df, anomaly, s.region_anomalies)

\* --------------------------------------------------------------- actions
\* the function returned or raised: its effects become the program's state
Return(s) ==
    /\ raised' = s.raised
    /\ merged_df' = s.merged_df
    /\ outcome' = s.outcome
    /\ files' = s.files
    /\ top_anomalies' = s.top_anomalies
    /\ top_anomalies_sorted' = s.top_anomalies_sorted
    /\ region_anomalies' = s.region_anomalies
    /\ anomaly_dates' = s.anomaly_dates
    /\ hist' = s.hist
    /\ mcc_anomalies' = s.mcc_anomalies
    /\ plot_data' = s.plot_data
    /\ summary' = s.summary
    /\ pc' = pc + 1
    /\ UNCHANGED <<module, anomaly_df>>

\* the script is at its k-th call and no exception has ended it
At(m, k) == module = m /\ pc = k /\ raised = ""

create_research_visualizations ==
    /\ At("research_visualizations", 1)
    /\ Return(overview_section(State, anomaly_df))

create_temporal_analysis ==
    /\ At("research_visualizations", 2)
    /\ Return(temporal_section(State, anomaly_df))

create_mcc_analysis ==
    /\ At("research_visualizations", 3)
    /\ Return(mcc_section(State, anomaly_df))

create_correlation_analysis ==
    /\ At("research_visualizations", 4)
    /\ Return(correlation_section(State))

create_boxplot_analysis ==
    /\ At("research_visualizations", 5)
    /\ Return(boxplot_section(State, reset_index(merged_df),
                              reset_index(anomaly_df)))

print_summary_statistics ==
    /\ At("research_visualizations", 6)
    /\ Return(summary_section(State, anomaly_df))

\* visualization_code.create_research_visualizations: overview, time series,
\* merchant categories and report in ONE function; an exception in a section
\* skips every later section.
vc_create_research_visualizations ==
    /\ At("visualization_code", 1)
    /\ Return(vc_summary_section(
                 mcc_section(
                    temporal_section(
                       overview_section(State, anomaly_df), anomaly_df),
                    anomaly_df),
                 anomaly_df))

create_heatmap_visualization ==
    /\ At("visualization_code", 2)
    /\ Return(correlation_section(State))

vc_create_boxplot_analysis ==
    /\ At("visualization_code", 3)
    /\ Return(boxplot_section(State, merged_df, anomaly_df))

Next ==
    \/ create_research_visualizations
    \/ create_temporal_analysis
    \/ create_mcc_analysis
    \/ create_correlation_analysis
    \/ create_boxplot_analysis
    \/ print_summary_statistics
    \/ vc_create_research_visualizations
    \/ create_heatmap_visualization
    \/ vc_create_boxplot_analysis

\* ---------------------------------------------------------------- inputs
Modules == {"research_visualizations", "visualization_code"}

\* a date stored as text that parses to day d
TextDate(d) == [kind |-> "text", day |-> d]

\* a date stored as text that does not parse
Garbage == [kind |-> "garbage", day |-> 0]

\* a missing date
Missing == [kind |-> "missing", day |-> 0]

\* index labels a table may carry: fresh (0..n-1), after rows were dropped
\* ahead of it without a reset (1..n), after a descending sort (n-1..0)
RangeIndex(n) == [i \in 1..n |-> i - 1]

ShiftedIndex(n) == [i \in 1..n |-> i]

ReversedIndex(n) == [i \in 1..n |-> n - i]

MergedFrames(n, indexes, amounts, regions, mccs, dates) ==
    {[i \in 1..n |-> [index |-> ix[i], amount |-> c[i].amount,
                      region |-> c[i].region,
                      mcc_description |-> c[i].mcc_description,
                      transaction_date |-> c[i].transaction_date]] :
        ix \in indexes,
        c \in [1..n -> [amount : amounts, region : regions,
                        mcc_description : mccs, transaction_date : dates]]}

AnomalyFrames(n, indexes) ==
    {[i \in 1..n |-> [index |-> ix[i], is_anomaly |-> f[i]]] :
        ix \in indexes, f \in [1..n -> {0, 1}]}

\* the state before the script's first call, for the tables given
InitWith(merged, anomaly) ==
    /\ module \in Modules
    /\ pc = 1
    /\ raised = ""
    /\ merged_df = merged
    /\ anomaly_df = anomaly
    /\ outcome = [c \in Charts |-> "pending"]
    /\ files = [f \in {savefig_name(c) : c \in ImageCharts} |-> ""]
    /\ top_anomalies = <<>>
    /\ top_anomalies_sorted = <<>>
    /\ region_anomalies = <<>>
    /\ anomaly_dates = <<>>
    /\ hist = [lo2 |-> 0, hi2 |-> 0, counts |-> <<>>]
    /\ mcc_anomalies = <<>>
    /\ plot_data = <<>>
    /\ summary = [lines |-> 0, total |-> 0, percent |-> 0, top_regions |-> <<>>,
                  mean_anomalies |-> [nan |-> TRUE, cents |-> 0],
                  mean_normal |-> [nan |-> TRUE, cents |-> 0]]

\* Tables of any two lengths, any of the three labellings, amounts that tell
\* rows apart, dates that parse or do not.
Init ==
    \E n \in 0..MaxRows, k \in 0..MaxRows :
        \E merged \in MergedFrames(n, {RangeIndex(n), ShiftedIndex(n)},
                                   {10, 50}, {"East"}, {"Retail"},
                                   {TextDate(1), Garbage}),
           anomaly \in AnomalyFrames(k, {RangeIndex(k), ShiftedIndex(k),
                                         ReversedIndex(k)}) :
            InitWith(merged, anomaly)

Spec == Init /\ [][Next]_vars

\* Row-aligned tables with fresh labels; regions and categories that repeat,
\* differ or are missing.
InitFreq ==
    \E n \in 0..MaxAlignedRows :
        \E merged \in MergedFrames(n, {RangeIndex(n)}, {10},
                                   {"East", "West", NaN}, {"Retail", NaN},
                                   {TextDate(1)}),
           anomaly \in AnomalyFrames(n, {RangeIndex(n)}) :
            InitWith(merged, anomaly)

SpecFreq == InitFreq /\ [][Next]_vars

\* Row-aligned tables with fresh labels; dates on several days or missing.
InitTemporal ==
    \E n \in 0..MaxAlignedRows :
        \E merged \in MergedFrames(n, {RangeIndex(n)}, {10}, {"East"},
                                   {"Retail"},
                                   {TextDate(1), TextDate(2), TextDate(4),
                                    Missing}),
           anomaly \in AnomalyFrames(n, {RangeIndex(n)}) :
            InitWith(merged, anomaly)

SpecTemporal == InitTemporal /\ [][Next]_vars

\* Row-aligned tables with fresh labels and every row anomalous, long enough
\* for more than TopK anomalies; two amounts, so that ties occur.
InitTopK ==
    \E n \in 0..MaxTopRows :
        \E merged \in MergedFrames(n, {RangeIndex(n)}, {10, 50}, {"East"},
                                   {"Retail"}, {TextDate(1)}) :
            InitWith(merged, [i \in 1..n |-> [index |-> i - 1, is_anomaly |-> 1]])

SpecTopK == InitTopK /\ [][Next]_vars

\* ---------------------------------------------------------------- claims
\* the script has run all its calls, or an exception has ended it
ScriptEnded ==
    \/ raised # ""
    \/ pc > (IF module = "research_visualizations" THEN 6 ELSE 3)

\* the rows of merged at the ordinal positions where anomaly's flag is v
PositionalSubset(merged, anomaly, v) ==
    LET pos == SelectSeq([i \in 1..Len(anomaly) |-> i],
                         LAMBDA i : anomaly[i].is_anomaly = v)
    IN  [k \in 1..Len(pos) |-> merged[pos[k]]]

AnomalyCount == Cardinality({i \in 1..Len(anomaly_df) : anomaly_df[i].is_anomaly = 1})

NormalCount == Cardinality({i \in 1..Len(anomaly_df) : anomaly_df[i].is_anomaly = 0})

Amounts(rows) == [i \in 1..Len(rows) |-> rows[i].amount]

Dates(rows) == [i \in 1..Len(rows) |-> rows[i].transaction_date]

CountSum(counts) == SeqSum([i \in 1..Len(counts) |-> counts[i].count])

\* C1: with tables of equal length, the subset a chart or the report selects
\* is the rows of T at the ordinal positions flagged in A, in T's order,
\* whatever labels the tables carry (stated for every selection that was made:
\* the overview's rows, the temporal chart's dates, the report's anomaly mean).
C1_SubsetIsPositional ==
    Len(merged_df) = Len(anomaly_df) =>
        LET expected == PositionalSubset(merged_df, anomaly_df, 1)
        IN  /\ outcome["overview"] = "ok" =>
                /\ Amounts(top_anomalies) = Amounts(expected)
                /\ index(top_anomalies) = index(expected)
            /\ outcome["temporal"] = "ok" =>
                anomaly_dates = Dates(expected)
            /\ summary.lines >= 4 =>
                summary.mean_anomalies = mean(Amounts(expected))

\* both tables hold at least one row
NonEmptyTables == Len(merged_df) > 0 /\ Len(anomaly_df) > 0

\* the tables are row-aligned: same length, anomaly_df freshly labelled
RowAligned ==
    /\ Len(merged_df) = Len(anomaly_df)
    /\ index(anomaly_df) = RangeIndex(Len(anomaly_df))

\* C2: with (non-empty) tables of different lengths, no chart or report that
\* selects the anomalous subset completes: each one that ran has failed
\* (LengthMismatch) instead of producing a subset or an aggregate.
C2_LengthMismatchRaised ==
    (NonEmptyTables /\ Len(merged_df) # Len(anomaly_df)) =>
        /\ \A c \in {"overview", "temporal", "mcc", "summary"} :
               outcome[c] # "ok"
        /\ summary.lines <= 1

C4_TablesReadOnly ==
    [][NonEmptyTables => (merged_df' = merged_df /\ anomaly_df' = anomaly_df)]_vars

\* C5: on non-empty row-aligned tables, when the anomalous or the normal group
\* is empty the report's grouped mean fails (EmptyGroup): the report does not
\* complete and no NaN mean is reported.
C5_EmptyGroupRaised ==
    (NonEmptyTables /\ RowAligned) =>
        /\ (outcome["summary"] = "ok" => (AnomalyCount > 0 /\ NormalCount > 0))
        /\ (summary.lines >= 4 => ~summary.mean_anomalies.nan)
        /\ (summary.lines >= 5 => ~summary.mean_normal.nan)

\* C6: the overview's top-K rows are min(K, size) distinct rows of the
\* anomalous subset, in descending amount with equal amounts in subset order,
\* and every row left out ranks after every row kept.
C6_TopKLargestStable ==
    outcome["overview"] = "ok" =>
        LET src == top_anomalies
            out == top_anomalies_sorted
            pos(r) == CHOOSE p \in 1..Len(src) : src[p].index = r.index
            before(a, b) == \/ a.amount > b.amount
                            \/ (a.amount = b.amount /\ pos(a) < pos(b))
            kept == {out[i] : i \in 1..Len(out)}
        IN  /\ Len(out) = Min(TopK, Len(src))
            /\ \A i \in 1..Len(out) : \E p \in 1..Len(src) : src[p] = out[i]
            /\ \A i, j \in 1..Len(out) : i < j => before(out[i], out[j])
            /\ \A p \in 1..Len(src) :
                   src[p] \notin kept =>
                       \A i \in 1..Len(out) : before(out[i], src[p])

\* C6 witness: more anomalies than K, the kept rows hold both amounts and a
\* tie, and the row left out ties with the last row kept.
C6_Witness ==
    /\ outcome["overview"] = "ok"
    /\ Len(top_anomalies) > TopK
    /\ Len(top_anomalies_sorted) = TopK
    /\ top_anomalies_sorted[1].amount > top_anomalies_sorted[TopK].amount
    /\ top_anomalies_sorted[1].amount = top_anomalies_sorted[2].amount
    /\ top_anomalies[Len(top_anomalies)].amount = top_anomalies_sorted[TopK].amount
    /\ top_anomalies[1].amount < top_anomalies[2].amount

\* C7: the value counts of region, and of merchant category, over the
\* anomalous subset sum to the subset's size, missing values included.
C7_CountsSumToSubsetSize ==
    outcome["overview"] = "ok" =>
        /\ CountSum(region_anomalies) = Len(top_anomalies)
        /\ CountSum(value_counts([i \in 1..Len(top_anomalies) |->
                                     top_anomalies[i].mcc_description]))
               = Len(top_anomalies)

\* the days of the anomalous rows (by position) that carry a date
AnomalousDays ==
    LET d == Dates(PositionalSubset(merged_df, anomaly_df, 1))
        t == SelectSeq(d, LAMBDA c : c.kind = "datetime")
    IN  [i \in 1..Len(t) |-> t[i].day]

\* the days of every row of the dataset that carries a date
DatasetDays ==
    {merged_df[i].transaction_date.day :
        i \in {j \in 1..Len(merged_df) :
                  merged_df[j].transaction_date.kind = "datetime"}}

\* day d lies in bucket b of `n` equal-width buckets over [lo2/2, hi2/2],
\* each closed below and open above, the last one closed
InBucket(d, b, lo2, hi2, n) ==
    /\ lo2 * n + (b - 1) * (hi2 - lo2) <= 2 * d * n
    /\ \/ 2 * d * n < lo2 * n + b * (hi2 - lo2)
       \/ (b = n /\ 2 * d = hi2)

\* C8 as stated, for an anomalous subset whose rows all carry a date: the Bins
\* buckets cover [min, max] of the dates of the FULL dataset (exactly that
\* range when min < max), and their counts sum to the size of the subset.
C8_BucketsSpanFullDataset ==
    (/\ outcome["temporal"] = "ok"
     /\ Len(anomaly_dates) > 0
     /\ Len(AnomalousDays) = Len(anomaly_dates)) =>
        /\ Len(hist.counts) = Bins
        /\ hist.lo2 <= 2 * SetMin(DatasetDays)
        /\ hist.hi2 >= 2 * SetMax(DatasetDays)
        /\ SetMin(DatasetDays) < SetMax(DatasetDays) =>
               /\ hist.lo2 = 2 * SetMin(DatasetDays)
               /\ hist.hi2 = 2 * SetMax(DatasetDays)
        /\ SeqSum(hist.counts) = Len(anomaly_dates)

\* C8 amended: the Bins equal-width buckets span [min, max] of the dates of
\* the anomalous subset itself (widened by half a day on each side when
\* min = max); every anomalous row that carries a date is counted in exactly
\* one bucket, the one its date lies in, so the counts sum to the number of
\* such rows; with no such row there is no bucket.
C8_BucketsSpanAnomalousDates ==
    outcome["temporal"] = "ok" =>
        LET days == AnomalousDays
            S    == {days[i] : i \in 1..Len(days)}
            mn   == SetMin(S)
            mx   == SetMax(S)
        IN  IF days = <<>> THEN hist.counts = <<>>
            ELSE /\ hist.lo2 = (IF mn = mx THEN 2 * mn - 1 ELSE 2 * mn)
                 /\ hist.hi2 = (IF mn = mx THEN 2 * mx + 1 ELSE 2 * mx)
                 /\ Len(hist.counts) = Bins
                 /\ \A b \in 1..Bins :
                        hist.counts[b] =
                            Cardinality({i \in 1..Len(days) :
                                InBucket(days[i], b, hist.lo2, hist.hi2, Bins)})
                 /\ \A i \in 1..Len(days) :
                        Cardinality({b \in 1..Bins :
                            InBucket(days[i], b, hist.lo2, hist.hi2, Bins)}) = 1
                 /\ SeqSum(hist.counts) = Len(days)

\* C8 witness: the temporal chart drew anomalies on two different days while
\* the dataset reaches a later day than any anomaly.
C8_Witness ==
    /\ outcome["temporal"] = "ok"
    /\ Len(AnomalousDays) = 2
    /\ AnomalousDays[1] # AnomalousDays[2]
    /\ SetMax(DatasetDays) > SetMax({AnomalousDays[i] : i \in 1..2})
    /\ hist.counts[1] = 1
    /\ hist.counts[Bins] = 1

\* what the caller's tables hold, with nothing raised yet
Fresh == [State EXCEPT !.raised = ""]

\* chart c, run on its own on the caller's tables, raises nothing
OwnInputsValid(c) ==
    CASE c = "overview"    -> overview_section(Fresh, anomaly_df).raised = ""
      [] c = "temporal"    -> temporal_section(Fresh, anomaly_df).raised = ""
      [] c = "mcc"         -> mcc_section(Fresh, anomaly_df).raised = ""
      [] c = "correlation" -> correlation_section(Fresh).raised = ""
      [] c = "boxplot"     ->
            boxplot_section(Fresh, merged_df, anomaly_df).raised = ""
      [] c = "summary"     ->
            IF module = "research_visualizations"
            THEN summary_section(Fresh, anomaly_df).raised = ""
            ELSE vc_summary_section(Fresh, anomaly_df).raised = ""

\* C9: when the batch (over non-empty tables) has ended, every chart and the
\* report whose own inputs are valid has been produced, whichever one failed.
C9_FailureDoesNotStopOthers ==
    (NonEmptyTables /\ ScriptEnded) =>
        \A c \in Charts : OwnInputsValid(c) => outcome[c] = "ok"

\* C10: an image saved under its name stays saved, unchanged, in every later
\* step of the run, also when that step fails.
C10_SavedChartsRetained ==
    [][\A f \in DOMAIN files : files[f] # "" => files'[f] = files[f]]_vars

\* C10 witness: the report failed after all five images were saved, each
\* under its own name and still there.
C10_Witness ==
    /\ raised # ""
    /\ outcome["summary"] = raised
    /\ \A c \in ImageCharts : files[savefig_name(c)] = c

====
